---------------------------- MODULE Spec2Model ----------------------------
(***************************************************************************)
(* Transportation problem solvers of PO_SimplexVSTabu:                     *)
(*   src/simplex.py      transporte_simplex (MODI / stepping stone)        *)
(*   src/tabu_search.py  busca_tabu_transporte (tabu search)               *)
(*                                                                         *)
(* Conventions.  A matrix is a sequence of rows, a row a sequence of       *)
(* numbers; indices are 1-based here and 0-based in the source, so the     *)
(* source's cell (i, j) is <<i+1, j+1>>.  The scenario inputs are          *)
(* integer-valued floats, far below 2^53, so every sum, product and        *)
(* comparison the solvers perform on them is exact and Int models it.      *)
(* Python's None is the empty sequence <<>>; a known potential x is <<x>>. *)
(* The elapsed-time field of a log record is a clock reading with no       *)
(* effect on control flow and is left out of the records.                  *)
(***************************************************************************)
EXTENDS Integers, Sequences, FiniteSets, TLC

\* Bounds of the model: the inputs are drawn from these ranges.
MaxCost == 2
MaxQty == 2
MaxIter == 2
\* Bounds of the tabu search calls; MaxTabu bounds the argument tamanho_tabu.
MaxCustoTabu == 1
MaxQtdTabu == 1
MaxIterTabu == 3
MaxTabu == 2

\* the size of a batch of neighbours: range(10), tabu_search.py line 91
NumVizinhos == 10

VARIABLES
    custo, oferta, demanda, max_iter,           \* the arguments of the call
    pc,                                         \* position in the solver
    matriz_custo, vetor_oferta, vetor_demanda,  \* balanced copies
    alocacao, iter_log, iteracao,               \* transporte_simplex locals
    entrada, ciclo,                             \* last entering cell / cycle
    saida,                                      \* why the loop was left
    custo_total,                                \* returned cost
    tamanho_tabu,                               \* busca_tabu_transporte argument
    solucao_atual, melhor_solucao, melhor_custo,
    registro_iteracoes, lista_tabu,             \* busca_tabu_transporte locals
    vizinhos, melhor_movimento,
    lista_apos_append,                          \* lista_tabu between lines 127 and 129
    oferta_restante, demanda_restante,          \* solucao_inicial_menor_custo locals
    passos                                      \* allocations it has made so far

\* the locals of solucao_inicial_menor_custo run step by step
inicialVars == <<oferta_restante, demanda_restante, passos>>

simplexVars == <<alocacao, iter_log, entrada, ciclo, saida, custo_total>>

tabuVars == <<tamanho_tabu, solucao_atual, melhor_solucao, melhor_custo,
              registro_iteracoes, lista_tabu, vizinhos, melhor_movimento,
              lista_apos_append>>

vars == <<custo, oferta, demanda, max_iter, pc, matriz_custo, vetor_oferta,
          vetor_demanda, iteracao, simplexVars, tabuVars, inicialVars>>

None == <<>>

---------------------------------------------------------------------------
\* numpy helpers

\* custo.shape
Rows(M) == Len(M)
Cols(M) == IF Len(M) = 0 THEN 0 ELSE Len(M[1])

\* np.zeros((m, n))
Zeros(m, n) == [i \in 1..m |-> [j \in 1..n |-> 0]]

\* the k-th cell (k = 1..m*n) of "for i in range(m): for j in range(n)"
CellAt(k, n) == <<((k - 1) \div n) + 1, ((k - 1) % n) + 1>>

RECURSIVE SeqSum(_)
\* v.sum()
SeqSum(s) == IF s = <<>> THEN 0 ELSE s[1] + SeqSum(Tail(s))

\* alocacao.sum(axis=1)[i] and alocacao.sum(axis=0)[j]
RowSum(M, i) == SeqSum(M[i])
ColSum(M, j) == SeqSum([i \in 1..Rows(M) |-> M[i][j]])
RowSums(M) == [i \in 1..Rows(M) |-> RowSum(M, i)]
ColSums(M) == [j \in 1..Cols(M) |-> ColSum(M, j)]

\* np.sum(alocacao * custo)
calcular_custo_total(c, a) ==
    SeqSum([i \in 1..Rows(a) |-> SeqSum([j \in 1..Cols(a) |-> a[i][j] * c[i][j]])])

\* np.hstack([M, np.zeros((m, 1))]) and np.vstack([M, np.zeros((1, n))])
AppendZeroCol(M) == [i \in 1..Rows(M) |-> Append(M[i], 0)]
AppendZeroRow(M) == Append(M, [j \in 1..Cols(M) |-> 0])

\* M[:, :-1] and M[:-1, :]
DropLastCol(M) == [i \in 1..Rows(M) |-> SubSeq(M[i], 1, Cols(M) - 1)]
DropLastRow(M) == SubSeq(M, 1, Rows(M) - 1)

Min2(a, b) == IF a < b THEN a ELSE b

---------------------------------------------------------------------------
\* solucao_inicial_menor_custo

RECURSIVE MenorCustoScanUltimo(_, _, _, _, _)
\* MenorCustoScan with "<=" for "<": the last cell in row-major order wins a tie
MenorCustoScanUltimo(c, o, d, k, best) ==
    IF k > Rows(c) * Cols(c) THEN best
    ELSE LET i == CellAt(k, Cols(c))[1]
             j == CellAt(k, Cols(c))[2]
             better == /\ o[i] > 0
                       /\ d[j] > 0
                       /\ (best = None \/ c[i][j] <= c[best[1]][best[2]])
         IN MenorCustoScanUltimo(c, o, d, k + 1, IF better THEN <<i, j>> ELSE best)

RECURSIVE MenorCustoScan(_, _, _, _, _)
\* The double loop of lines 28-33 from cell k on: best is None (min_val is
\* np.inf) or the cell found so far; a cell replaces it only when its cost
\* is strictly smaller, so the first cell in row-major order wins a tie.
MenorCustoScan(c, o, d, k, best) ==
    IF k > Rows(c) * Cols(c) THEN best
    ELSE LET i == CellAt(k, Cols(c))[1]
             j == CellAt(k, Cols(c))[2]
             better == /\ o[i] > 0
                       /\ d[j] > 0
                       /\ (best = None \/ c[i][j] < c[best[1]][best[2]])
         IN MenorCustoScan(c, o, d, k + 1, IF better THEN <<i, j>> ELSE best)

RECURSIVE MenorCustoLoop(_, _, _, _)
\* The while loop of lines 24-42.
MenorCustoLoop(c, a, o, d) ==
    IF ~ ((\E i \in 1..Len(o) : o[i] > 0) /\ (\E j \in 1..Len(d) : d[j] > 0))
    THEN a
    ELSE LET cel == MenorCustoScan(c, o, d, 1, None)
         IN IF cel = None THEN a
            ELSE LET aloc == Min2(o[cel[1]], d[cel[2]])
                 IN MenorCustoLoop(c,
                        [a EXCEPT ![cel[1]][cel[2]] = aloc],
                        [o EXCEPT ![cel[1]] = @ - aloc],
                        [d EXCEPT ![cel[2]] = @ - aloc])

solucao_inicial_menor_custo(c, o, d) ==
    MenorCustoLoop(c, Zeros(Rows(c), Cols(c)), o, d)

\* solucao_inicial_menor_custo(custo, oferta, demanda) run one iteration of
\* its while loop at a time.  Lines 18-21: the locals before the loop.
InicialEntrada ==
    /\ pc = "inicial_chamado"
    /\ alocacao' = Zeros(Rows(custo), Cols(custo))
    /\ oferta_restante' = oferta
    /\ demanda_restante' = demanda
    /\ passos' = 0
    /\ pc' = "inicial_laco"
    /\ UNCHANGED <<custo, oferta, demanda, max_iter, matriz_custo, vetor_oferta,
                   vetor_demanda, iteracao, iter_log, entrada, ciclo, saida,
                   custo_total, tabuVars>>

\* np.any(oferta_restante > 0) and np.any(demanda_restante > 0), line 24
InicialContinua ==
    /\ \E i \in 1..Len(oferta_restante) : oferta_restante[i] > 0
    /\ \E j \in 1..Len(demanda_restante) : demanda_restante[j] > 0

\* lines 24-42: one iteration of the loop; passos counts the allocations
InicialPasso ==
    /\ pc = "inicial_laco"
    /\ InicialContinua
    /\ LET cel == MenorCustoScan(custo, oferta_restante, demanda_restante, 1, None)
       IN IF cel = None
          THEN /\ pc' = "inicial_retornado"
               /\ UNCHANGED <<alocacao, oferta_restante, demanda_restante, passos>>
          ELSE LET aloc == Min2(oferta_restante[cel[1]], demanda_restante[cel[2]])
               IN /\ alocacao' = [alocacao EXCEPT ![cel[1]][cel[2]] = aloc]
                  /\ oferta_restante' = [oferta_restante EXCEPT ![cel[1]] = @ - aloc]
                  /\ demanda_restante' = [demanda_restante EXCEPT ![cel[2]] = @ - aloc]
                  /\ passos' = passos + 1
                  /\ UNCHANGED pc
    /\ UNCHANGED <<custo, oferta, demanda, max_iter, matriz_custo, vetor_oferta,
                   vetor_demanda, iteracao, iter_log, entrada, ciclo, saida,
                   custo_total, tabuVars>>

\* lines 24 and 44: the loop condition is false, the allocation is returned
InicialRetorno ==
    /\ pc = "inicial_laco"
    /\ ~ InicialContinua
    /\ pc' = "inicial_retornado"
    /\ UNCHANGED <<custo, oferta, demanda, max_iter, matriz_custo, vetor_oferta,
                   vetor_demanda, iteracao, alocacao, iter_log, entrada, ciclo, saida,
                   custo_total, tabuVars, inicialVars>>

---------------------------------------------------------------------------
\* calcular_potenciais

RECURSIVE BasicasFrom(_, _)
\* [(i, j) for i in range(m) for j in range(n) if alocacao[i, j] > 0]
BasicasFrom(a, k) ==
    IF k > Rows(a) * Cols(a) THEN <<>>
    ELSE LET cel == CellAt(k, Cols(a))
         IN IF a[cel[1]][cel[2]] > 0
            THEN <<cel>> \o BasicasFrom(a, k + 1)
            ELSE BasicasFrom(a, k + 1)

celulas_basicas(a) == BasicasFrom(a, 1)

RECURSIVE PotenciaisPass(_, _, _, _)
\* One "for (i, j) in celulas_basicas" pass (lines 72-78) from position k on;
\* st = [u, v, changed].
PotenciaisPass(c, bas, k, st) ==
    IF k > Len(bas) THEN st
    ELSE LET i == bas[k][1]
             j == bas[k][2]
         IN IF st.u[i] # None /\ st.v[j] = None
            THEN PotenciaisPass(c, bas, k + 1,
                     [st EXCEPT !.v[j] = <<c[i][j] - st.u[i][1]>>, !.changed = TRUE])
            ELSE IF st.v[j] # None /\ st.u[i] = None
            THEN PotenciaisPass(c, bas, k + 1,
                     [st EXCEPT !.u[i] = <<c[i][j] - st.v[j][1]>>, !.changed = TRUE])
            ELSE PotenciaisPass(c, bas, k + 1, st)

RECURSIVE PotenciaisLoop(_, _, _)
\* while changed (lines 70-78)
PotenciaisLoop(c, bas, st) ==
    LET nxt == PotenciaisPass(c, bas, 1, [st EXCEPT !.changed = FALSE])
    IN IF nxt.changed THEN PotenciaisLoop(c, bas, nxt) ELSE nxt

\* returns [u, v]: u[1] (the source's u[0]) is fixed to 0
calcular_potenciais(c, a) ==
    LET st0 == [u |-> [i \in 1..Rows(c) |-> IF i = 1 THEN <<0>> ELSE None],
                v |-> [j \in 1..Cols(c) |-> None],
                changed |-> TRUE]
        fin == PotenciaisLoop(c, celulas_basicas(a), st0)
    IN [u |-> fin.u, v |-> fin.v]

---------------------------------------------------------------------------
\* encontrar_variavel_entrada

\* Delta one unit too low: a cell on the optimality boundary looks improving
DeltaMenosUm(c, u, v, i, j) ==
    IF u[i] # None /\ v[j] # None THEN c[i][j] - (u[i][1] + v[j][1]) - 1 ELSE 0

\* delta of a zero cell (lines 105-108)
Delta(c, u, v, i, j) ==
    IF u[i] # None /\ v[j] # None THEN c[i][j] - (u[i][1] + v[j][1]) ELSE 0

RECURSIVE EntradaScanUltimo(_, _, _, _, _, _)
\* EntradaScan with "<=" for "<": the last cell in row-major order wins a tie
EntradaScanUltimo(c, a, u, v, k, st) ==
    IF k > Rows(c) * Cols(c) THEN st
    ELSE LET i == CellAt(k, Cols(c))[1]
             j == CellAt(k, Cols(c))[2]
         IN IF a[i][j] = 0 /\ Delta(c, u, v, i, j) <= st.min_delta
            THEN EntradaScanUltimo(c, a, u, v, k + 1,
                     [entrada |-> <<i, j>>, min_delta |-> Delta(c, u, v, i, j)])
            ELSE EntradaScanUltimo(c, a, u, v, k + 1, st)

RECURSIVE EntradaScan(_, _, _, _, _, _)
\* The double loop of lines 101-111 from cell k on; st = [entrada, min_delta].
EntradaScan(c, a, u, v, k, st) ==
    IF k > Rows(c) * Cols(c) THEN st
    ELSE LET i == CellAt(k, Cols(c))[1]
             j == CellAt(k, Cols(c))[2]
         IN IF a[i][j] = 0 /\ Delta(c, u, v, i, j) < st.min_delta
            THEN EntradaScan(c, a, u, v, k + 1,
                     [entrada |-> <<i, j>>, min_delta |-> Delta(c, u, v, i, j)])
            ELSE EntradaScan(c, a, u, v, k + 1, st)

\* returns [entrada, min_delta]; entrada = None when no delta is negative
encontrar_variavel_entrada(c, a, u, v) ==
    EntradaScan(c, a, u, v, 1, [entrada |-> None, min_delta |-> 0])

---------------------------------------------------------------------------
\* encontrar_ciclo

\* celula in caminho
InPath(cel, caminho) == \E k \in 1..Len(caminho) : caminho[k] = cel

RECURSIVE Dfs(_, _, _)
RECURSIVE DfsFor(_, _, _, _)
\* dfs(caminho) of lines 132-150, over basicas (the basic cells followed by
\* inicio)
Dfs(basicas, inicio, caminho) ==
    IF Len(caminho) >= 4 /\ caminho[Len(caminho)] = inicio
    THEN caminho
    ELSE DfsFor(basicas, inicio, caminho, 1)

\* "for celula in basicas" of lines 138-149 from position k on
DfsFor(basicas, inicio, caminho, k) ==
    IF k > Len(basicas) THEN None
    ELSE LET celula == basicas[k]
             ultimo == caminho[Len(caminho)]
         IN IF InPath(celula, caminho) /\ celula # inicio
            THEN DfsFor(basicas, inicio, caminho, k + 1)
            ELSE IF celula[1] = ultimo[1] \/ celula[2] = ultimo[2]
            THEN LET novo_caminho == Append(caminho, celula)
                 IN IF Len(novo_caminho) > 1 /\ celula = inicio
                       /\ Len(novo_caminho) >= 4
                    THEN novo_caminho
                    ELSE LET resultado == Dfs(basicas, inicio, novo_caminho)
                         IN IF resultado # None THEN resultado
                            ELSE DfsFor(basicas, inicio, caminho, k + 1)
            ELSE DfsFor(basicas, inicio, caminho, k + 1)

\* returns the cycle (a sequence of cells) or None
encontrar_ciclo(a, inicio) ==
    Dfs(Append(celulas_basicas(a), inicio), inicio, <<inicio>>)

---------------------------------------------------------------------------
\* ajustar_alocacao

\* ciclo[1::2]: the cells at the source's odd positions
posicoes_menos(cic) == [k \in 1..(Len(cic) \div 2) |-> cic[2 * k]]

\* the values min() of line 171 ranges over
ThetaValues(a, cic) ==
    {a[posicoes_menos(cic)[k][1]][posicoes_menos(cic)[k][2]] :
        k \in {x \in 1..Len(posicoes_menos(cic)) :
                 a[posicoes_menos(cic)[x][1]][posicoes_menos(cic)[x][2]] > 0}}

\* min() of an empty generator raises ValueError: None here
Theta(a, cic) ==
    IF ThetaValues(a, cic) = {} THEN None
    ELSE <<CHOOSE x \in ThetaValues(a, cic) : \A y \in ThetaValues(a, cic) : x <= y>>

\* AjustarFrom with the signs exchanged: the sign starts at -1
AjustarFromInvertido(a, cic, theta, k) ==
    [i \in 1..Rows(a) |-> [j \in 1..Cols(a) |->
        a[i][j] - theta * Cardinality({x \in k..Len(cic) : cic[x] = <<i, j>> /\ x % 2 = 1})
                + theta * Cardinality({x \in k..Len(cic) : cic[x] = <<i, j>> /\ x % 2 = 0})]]

RECURSIVE AjustarFrom(_, _, _, _)
\* The loop of lines 175-180 from position k on: the sign starts at +1 and
\* flips after every cell of the cycle, repeated cells included.
AjustarFrom(a, cic, theta, k) ==
    IF k > Len(cic) THEN a
    ELSE AjustarFrom(
             [a EXCEPT ![cic[k][1]][cic[k][2]] =
                 IF k % 2 = 1 THEN @ + theta ELSE @ - theta],
             cic, theta, k + 1)

\* defined when Theta(a, cic) # None
ajustar_alocacao(a, cic) == AjustarFrom(a, cic, Theta(a, cic)[1], 1)

---------------------------------------------------------------------------
\* transporte_simplex

\* Balancear extending the vector with the surplus but leaving the cost
\* matrix without its dummy row or column
BalancearSemDummy(c, o, d) ==
    IF SeqSum(o) > SeqSum(d)
    THEN [custo |-> c, oferta |-> o, demanda |-> Append(d, SeqSum(o) - SeqSum(d))]
    ELSE IF SeqSum(d) > SeqSum(o)
    THEN [custo |-> c, oferta |-> Append(o, SeqSum(d) - SeqSum(o)), demanda |-> d]
    ELSE [custo |-> c, oferta |-> o, demanda |-> d]

\* lines 201-217 (and tabu_search.py 64-78): [custo, oferta, demanda]
Balancear(c, o, d) ==
    IF SeqSum(o) > SeqSum(d)
    THEN [custo |-> AppendZeroCol(c), oferta |-> o,
          demanda |-> Append(d, SeqSum(o) - SeqSum(d))]
    ELSE IF SeqSum(d) > SeqSum(o)
    THEN [custo |-> AppendZeroRow(c), oferta |-> Append(o, SeqSum(d) - SeqSum(o)),
          demanda |-> d]
    ELSE [custo |-> c, oferta |-> o, demanda |-> d]

\* lines 254-259 applied to one allocation
RemoverDummy(a, o, d) ==
    IF SeqSum(o) > SeqSum(d) THEN DropLastCol(a)
    ELSE IF SeqSum(d) > SeqSum(o) THEN DropLastRow(a)
    ELSE a

\* a record of iter_log, without the elapsed time
Registro(it, c, a) == [iteracao |-> it, custo |-> c, alocacao |-> a]

\* lines 199-223: balance, initial solution, log iteration 0
SimplexEntrada ==
    /\ pc = "chamado"
    /\ LET bal == Balancear(custo, oferta, demanda)
           ini == solucao_inicial_menor_custo(bal.custo, bal.oferta, bal.demanda)
       IN /\ matriz_custo' = bal.custo
          /\ vetor_oferta' = bal.oferta
          /\ vetor_demanda' = bal.demanda
          /\ alocacao' = ini
          /\ iter_log' = <<Registro(0, calcular_custo_total(bal.custo, ini), ini)>>
    /\ iteracao' = 0
    /\ pc' = "iterando"
    /\ UNCHANGED <<inicialVars, custo, oferta, demanda, max_iter, entrada, ciclo, saida, custo_total,
                   tabuVars>>

\* one pass of the body of "for iteracao in range(max_iter)", lines 225-251
SimplexIteracao ==
    /\ pc = "iterando"
    /\ iteracao < max_iter
    /\ LET pot == calcular_potenciais(matriz_custo, alocacao)
           ent == encontrar_variavel_entrada(matriz_custo, alocacao, pot.u, pot.v)
           cic == IF ent.entrada = None THEN None
                  ELSE encontrar_ciclo(alocacao, ent.entrada)
       IN /\ iter_log' = Append(iter_log,
                 Registro(iteracao + 1, calcular_custo_total(matriz_custo, alocacao),
                          alocacao))
          /\ entrada' = ent.entrada
          /\ ciclo' = cic
          /\ IF ent.entrada = None
             THEN /\ pc' = "saindo"
                  /\ saida' = "otimo"
                  /\ UNCHANGED <<alocacao, iteracao>>
             ELSE IF cic = None
             THEN /\ pc' = "saindo"
                  /\ saida' = "sem_ciclo"
                  /\ UNCHANGED <<alocacao, iteracao>>
             ELSE IF Theta(alocacao, cic) = None
             THEN /\ pc' = "excecao"
                  /\ UNCHANGED <<alocacao, iteracao, saida>>
             ELSE /\ alocacao' = ajustar_alocacao(alocacao, cic)
                  /\ iteracao' = iteracao + 1
                  /\ UNCHANGED <<pc, saida>>
    /\ UNCHANGED <<inicialVars, custo, oferta, demanda, max_iter, matriz_custo, vetor_oferta,
                   vetor_demanda, custo_total, tabuVars>>

\* lines 253-262, after a break or after range(max_iter) is exhausted
SimplexRetorno ==
    /\ pc \in {"saindo", "iterando"}
    /\ pc = "iterando" => iteracao >= max_iter
    /\ alocacao' = RemoverDummy(alocacao, oferta, demanda)
    /\ iter_log' = [k \in 1..Len(iter_log) |->
                       [iter_log[k] EXCEPT !.alocacao = RemoverDummy(@, oferta, demanda)]]
    /\ custo_total' = calcular_custo_total(custo, RemoverDummy(alocacao, oferta, demanda))
    /\ saida' = IF pc = "saindo" THEN saida ELSE "max_iter"
    /\ pc' = "retornado"
    /\ UNCHANGED <<inicialVars, custo, oferta, demanda, max_iter, matriz_custo, vetor_oferta,
                   vetor_demanda, iteracao, entrada, ciclo, tabuVars>>

---------------------------------------------------------------------------
\* encontrar_ciclo and ajustar_alocacao called on their own

\* line 246: ciclo = encontrar_ciclo(alocacao, entrada)
CicloBuscar ==
    /\ pc = "ciclo_chamado"
    /\ ciclo' = encontrar_ciclo(alocacao, entrada)
    /\ pc' = "ciclo_achado"
    /\ UNCHANGED <<inicialVars, custo, oferta, demanda, max_iter, matriz_custo, vetor_oferta,
                   vetor_demanda, iteracao, alocacao, iter_log, entrada, saida,
                   custo_total, tabuVars>>

\* lines 247-251: stop when there is no cycle, pivot otherwise
CicloAjustar ==
    /\ pc = "ciclo_achado"
    /\ IF ciclo = None
       THEN /\ pc' = "saindo"
            /\ saida' = "sem_ciclo"
            /\ UNCHANGED alocacao
       ELSE IF Theta(alocacao, ciclo) = None
       THEN /\ pc' = "excecao"
            /\ UNCHANGED <<alocacao, saida>>
       ELSE /\ alocacao' = ajustar_alocacao(alocacao, ciclo)
            /\ pc' = "ajustado"
            /\ UNCHANGED saida
    /\ UNCHANGED <<inicialVars, custo, oferta, demanda, max_iter, matriz_custo, vetor_oferta,
                   vetor_demanda, iteracao, iter_log, entrada, ciclo,
                   custo_total, tabuVars>>

---------------------------------------------------------------------------
\* busca_tabu_transporte

Abs(x) == IF x < 0 THEN -x ELSE x
Max2(a, b) == IF a > b THEN a ELSE b

\* gerar_vizinho without the max(..., 0) of line 41
GerarVizinhoSemPiso(a, i, j, delta) == [a EXCEPT ![i][j] = @ + delta]

\* gerar_vizinho with its three random draws as arguments: the cell (i, j)
\* of random.randint and delta of random.choice([-1, 1])
gerar_vizinho(a, i, j, delta) == [a EXCEPT ![i][j] = Max2(@ + delta, 0)]

\* every allocation one call of gerar_vizinho can return
VizinhosDe(a) ==
    {gerar_vizinho(a, i, j, delta) :
        i \in 1..Rows(a), j \in 1..Cols(a), delta \in {-1, 1}}

\* np.sum(np.abs(vz - solucao_atual)), the fingerprint of a move
Movimento(vz, atual) ==
    SeqSum([i \in 1..Rows(vz) |->
               SeqSum([j \in 1..Cols(vz) |-> Abs(vz[i][j] - atual[i][j])])])

\* movimento in lista_tabu
InTabu(mov, lista) == \E k \in 1..Len(lista) : lista[k] = mov

RECURSIVE SelecionarScan(_, _, _, _, _, _)
\* The loop of lines 103-111 from candidate k on; st = [vizinho, custo,
\* movimento], vizinho = None while melhor_custo_vizinho is float('inf').
SelecionarScan(c, atual, lista, vzs, k, st) ==
    IF k > Len(vzs) THEN st
    ELSE LET vz == vzs[k]
             vz_custo == calcular_custo_total(c, vz)
             movimento == Movimento(vz, atual)
         IN IF InTabu(movimento, lista)
            THEN SelecionarScan(c, atual, lista, vzs, k + 1, st)
            ELSE IF st.vizinho = None \/ vz_custo < st.custo
            THEN SelecionarScan(c, atual, lista, vzs, k + 1,
                     [vizinho |-> vz, custo |-> vz_custo, movimento |-> movimento])
            ELSE SelecionarScan(c, atual, lista, vzs, k + 1, st)

\* Selecionar falling back to the last neighbour of the batch instead of the
\* first when every move is tabu
SelecionarRecuaUltimo(c, atual, lista, vzs) ==
    LET st == SelecionarScan(c, atual, lista, vzs, 1,
                  [vizinho |-> None, custo |-> 0, movimento |-> 0])
    IN IF st.vizinho = None
       THEN [vizinho |-> vzs[Len(vzs)], custo |-> calcular_custo_total(c, vzs[Len(vzs)]),
             movimento |-> Movimento(vzs[Len(vzs)], atual)]
       ELSE st

\* lines 98-117: the best admissible neighbour, or the first one when every
\* move is tabu
Selecionar(c, atual, lista, vzs) ==
    LET st == SelecionarScan(c, atual, lista, vzs, 1,
                  [vizinho |-> None, custo |-> 0, movimento |-> 0])
    IN IF st.vizinho = None
       THEN [vizinho |-> vzs[1], custo |-> calcular_custo_total(c, vzs[1]),
             movimento |-> Movimento(vzs[1], atual)]
       ELSE st

\* AtualizarTabu evicting the entry before the newest instead of the oldest
\* (pop(-2) for pop(0)); with nothing before the newest, the newest itself
AtualizarTabuPopPenultimo(lista, mov, tamanho) ==
    IF Len(lista) + 1 > tamanho
    THEN IF lista = <<>> THEN <<>> ELSE Append(SubSeq(lista, 1, Len(lista) - 1), mov)
    ELSE Append(lista, mov)

\* lines 127-130: append, then drop the oldest entry when over capacity
AtualizarTabu(lista, mov, tamanho) ==
    IF Len(lista) + 1 > tamanho THEN Tail(Append(lista, mov)) ELSE Append(lista, mov)

\* lines 62-86: balance, initial solution, best = current, empty log and list
TabuEntrada ==
    /\ pc = "chamado"
    /\ LET bal == Balancear(custo, oferta, demanda)
           ini == solucao_inicial_menor_custo(bal.custo, bal.oferta, bal.demanda)
       IN /\ matriz_custo' = bal.custo
          /\ vetor_oferta' = bal.oferta
          /\ vetor_demanda' = bal.demanda
          /\ solucao_atual' = ini
          /\ melhor_solucao' = ini
          /\ melhor_custo' = calcular_custo_total(bal.custo, ini)
    /\ registro_iteracoes' = <<>>
    /\ lista_tabu' = <<>>
    /\ lista_apos_append' = <<>>
    /\ iteracao' = 0
    /\ pc' = "gerando"
    /\ UNCHANGED <<inicialVars, custo, oferta, demanda, max_iter, simplexVars, tamanho_tabu,
                   vizinhos, melhor_movimento>>

\* lines 89-93: the batch of random neighbours of the current solution
TabuGerarVizinhos ==
    /\ pc = "gerando"
    /\ iteracao < max_iter
    /\ vizinhos' \in [1..NumVizinhos -> VizinhosDe(solucao_atual)]
    /\ pc' = "selecionando"
    /\ UNCHANGED <<inicialVars, custo, oferta, demanda, max_iter, matriz_custo, vetor_oferta,
                   vetor_demanda, iteracao, simplexVars, tamanho_tabu,
                   solucao_atual, melhor_solucao, melhor_custo,
                   registro_iteracoes, lista_tabu, melhor_movimento,
                   lista_apos_append>>

\* lines 95-135: select, move, update the best, the tabu list and the log.
\* The batch is dead after the selection (line 90 rebinds it).
TabuSelecionar ==
    /\ pc = "selecionando"
    /\ \E sel \in {Selecionar(matriz_custo, solucao_atual, lista_tabu, vizinhos)} :
          /\ solucao_atual' = sel.vizinho
          /\ melhor_movimento' = sel.movimento
          /\ IF sel.custo < melhor_custo
             THEN /\ melhor_solucao' = sel.vizinho
                  /\ melhor_custo' = sel.custo
             ELSE UNCHANGED <<melhor_solucao, melhor_custo>>
          /\ lista_apos_append' = Append(lista_tabu, sel.movimento)
          /\ lista_tabu' = AtualizarTabu(lista_tabu, sel.movimento, tamanho_tabu)
          /\ registro_iteracoes' =
                 Append(registro_iteracoes, Registro(iteracao, sel.custo, sel.vizinho))
    /\ vizinhos' = <<>>
    /\ iteracao' = iteracao + 1
    /\ pc' = "gerando"
    /\ UNCHANGED <<inicialVars, custo, oferta, demanda, max_iter, matriz_custo, vetor_oferta,
                   vetor_demanda, simplexVars, tamanho_tabu>>

\* lines 137-144, once range(max_iter) is exhausted
TabuRetorno ==
    /\ pc = "gerando"
    /\ iteracao >= max_iter
    /\ melhor_solucao' = RemoverDummy(melhor_solucao, oferta, demanda)
    /\ melhor_custo' =
           calcular_custo_total(custo, RemoverDummy(melhor_solucao, oferta, demanda))
    /\ pc' = "retornado"
    /\ UNCHANGED <<inicialVars, custo, oferta, demanda, max_iter, matriz_custo, vetor_oferta,
                   vetor_demanda, iteracao, simplexVars, tamanho_tabu,
                   solucao_atual, registro_iteracoes, lista_tabu, vizinhos,
                   melhor_movimento, lista_apos_append>>

---------------------------------------------------------------------------
\* The calls explored

Matrizes(m, n, S) == [1..m -> [1..n -> S]]
Vetores(n, S) == [1..n -> S]

\* 2x2 instances, balanced or not, with non-negative entries
InstanciasValidas ==
    [custo : Matrizes(2, 2, 0..MaxCost),
     oferta : Vetores(2, 0..MaxQty),
     demanda : Vetores(2, 0..MaxQty)]

\* instances with one negative entry: the callers' precondition violations
InstanciasPositivas ==
    [custo : Matrizes(2, 2, {1}),
     oferta : Vetores(2, 1..MaxQty),
     demanda : Vetores(2, 1..MaxQty)]
InstanciasInvalidas ==
    {[x EXCEPT !.custo[1][1] = -1] : x \in InstanciasPositivas}
    \cup {[x EXCEPT !.oferta[1] = -1] : x \in InstanciasPositivas}
    \cup {[x EXCEPT !.demanda[2] = -1] : x \in InstanciasPositivas}

\* main.py, "Cenário 1" (lines 84-90) and "Cenário 2" (lines 94-100)
Cenario1 ==
    [custo |-> <<<<8, 6, 10, 9>>, <<9, 12, 13, 7>>, <<14, 9, 16, 5>>>>,
     oferta |-> <<20, 30, 25>>,
     demanda |-> <<10, 25, 25, 10>>]
Cenario2 ==
    [custo |-> <<<<5, 5, 5>>, <<5, 5, 5>>, <<5, 5, 5>>>>,
     oferta |-> <<30, 20, 10>>,
     demanda |-> <<30, 20, 10>>]

\* three sources, two sinks, supply 8 > demand 4
Instancia32 ==
    [custo |-> <<<<0, 2>>, <<1, 3>>, <<3, 1>>>>,
     oferta |-> <<3, 3, 2>>,
     demanda |-> <<1, 3>>]

Instancias ==
    InstanciasValidas \cup InstanciasInvalidas \cup {Cenario1, Cenario2, Instancia32}

\* The instances of the tabu search calls: every one-source one-sink
\* instance within the bounds.  A batch is any sequence of NumVizinhos
\* neighbours: a balanced 1x1 solution has 2 distinct neighbours (2^10
\* batches), a 1x1 instance with its dummy row or column has 4 (4^10).
InstanciasTabu ==
    [custo : Matrizes(1, 1, 0..MaxCustoTabu),
     oferta : Vetores(1, 0..MaxQtdTabu),
     demanda : Vetores(1, 0..MaxQtdTabu)]

\* supply > demand: the solvers append a dummy column
TabuColunaDummy == [custo |-> <<<<1>>>>, oferta |-> <<1>>, demanda |-> <<0>>]

\* before the call: no local is bound yet
SemLocais ==
    /\ oferta_restante = <<>>
    /\ demanda_restante = <<>>
    /\ passos = 0
    /\ pc = "chamado"
    /\ matriz_custo = <<>>
    /\ vetor_oferta = <<>>
    /\ vetor_demanda = <<>>
    /\ alocacao = <<>>
    /\ iter_log = <<>>
    /\ iteracao = 0
    /\ entrada = None
    /\ ciclo = None
    /\ saida = ""
    /\ custo_total = 0
    /\ solucao_atual = <<>>
    /\ melhor_solucao = <<>>
    /\ melhor_custo = 0
    /\ registro_iteracoes = <<>>
    /\ lista_tabu = <<>>
    /\ lista_apos_append = <<>>
    /\ vizinhos = <<>>
    /\ melhor_movimento = 0

\* a direct call of encontrar_ciclo: only alocacao, entrada, ciclo and pc are used
SemLocaisCiclo ==
    /\ oferta_restante = <<>>
    /\ demanda_restante = <<>>
    /\ passos = 0
    /\ custo = <<>>
    /\ oferta = <<>>
    /\ demanda = <<>>
    /\ max_iter = 0
    /\ tamanho_tabu = 0
    /\ matriz_custo = <<>>
    /\ vetor_oferta = <<>>
    /\ vetor_demanda = <<>>
    /\ iter_log = <<>>
    /\ iteracao = 0
    /\ ciclo = None
    /\ saida = ""
    /\ custo_total = 0
    /\ solucao_atual = <<>>
    /\ melhor_solucao = <<>>
    /\ melhor_custo = 0
    /\ registro_iteracoes = <<>>
    /\ lista_tabu = <<>>
    /\ lista_apos_append = <<>>
    /\ vizinhos = <<>>
    /\ melhor_movimento = 0

\* a call transporte_simplex(custo, oferta, demanda, max_iter)
Init ==
    /\ \E x \in Instancias :
          /\ custo = x.custo
          /\ oferta = x.oferta
          /\ demanda = x.demanda
    /\ max_iter \in 0..MaxIter
    /\ tamanho_tabu = 0
    /\ SemLocais

Next == SimplexEntrada \/ SimplexIteracao \/ SimplexRetorno

Spec == Init /\ [][Next]_vars

\* a call busca_tabu_transporte(custo, oferta, demanda, max_iter, tamanho_tabu):
\* the balanced instances with up to MaxIterTabu iterations, the unbalanced
\* ones with max_iter = 0
InitTabu ==
    /\ \E x \in InstanciasTabu :
          /\ custo = x.custo
          /\ oferta = x.oferta
          /\ demanda = x.demanda
    /\ max_iter \in 0..MaxIterTabu
    /\ SeqSum(oferta) # SeqSum(demanda) => max_iter = 0
    /\ tamanho_tabu \in 0..MaxTabu
    /\ SemLocais

NextTabu == TabuEntrada \/ TabuGerarVizinhos \/ TabuSelecionar \/ TabuRetorno

SpecTabu == InitTabu /\ [][NextTabu]_vars

\* a call of busca_tabu_transporte on an unbalanced instance with one
\* iteration and no tabu list
InitTabuDummy ==
    /\ custo = TabuColunaDummy.custo
    /\ oferta = TabuColunaDummy.oferta
    /\ demanda = TabuColunaDummy.demanda
    /\ max_iter = 1
    /\ tamanho_tabu = 0
    /\ SemLocais

SpecTabuDummy == InitTabuDummy /\ [][NextTabu]_vars

\* a call encontrar_ciclo(alocacao, inicio) on a 2x3 allocation and one of its
\* zero cells, followed by what transporte_simplex does with the result
InitCiclo ==
    /\ SemLocaisCiclo
    /\ alocacao \in Matrizes(2, 3, 0..MaxQty)
    /\ entrada \in {cel \in (1..2) \X (1..3) : alocacao[cel[1]][cel[2]] = 0}
    /\ pc = "ciclo_chamado"

NextCiclo == CicloBuscar \/ CicloAjustar

SpecCiclo == InitCiclo /\ [][NextCiclo]_vars

\* a call solucao_inicial_menor_custo(custo, oferta, demanda): the 2x2
\* instances, "Cenário 2" and "Cenário 1" as the solvers pass it on (balanced)
Cenario1Balanceado == Balancear(Cenario1.custo, Cenario1.oferta, Cenario1.demanda)

InitInicial ==
    /\ \E x \in InstanciasValidas \cup {Cenario2, Cenario1Balanceado} :
          /\ custo = x.custo
          /\ oferta = x.oferta
          /\ demanda = x.demanda
    /\ max_iter = 0
    /\ tamanho_tabu = 0
    /\ pc = "inicial_chamado"
    /\ matriz_custo = <<>>
    /\ vetor_oferta = <<>>
    /\ vetor_demanda = <<>>
    /\ alocacao = <<>>
    /\ iter_log = <<>>
    /\ iteracao = 0
    /\ entrada = None
    /\ ciclo = None
    /\ saida = ""
    /\ custo_total = 0
    /\ solucao_atual = <<>>
    /\ melhor_solucao = <<>>
    /\ melhor_custo = 0
    /\ registro_iteracoes = <<>>
    /\ lista_tabu = <<>>
    /\ lista_apos_append = <<>>
    /\ vizinhos = <<>>
    /\ melhor_movimento = 0
    /\ oferta_restante = <<>>
    /\ demanda_restante = <<>>
    /\ passos = 0

NextInicial == InicialEntrada \/ InicialPasso \/ InicialRetorno

SpecInicial == InitInicial /\ [][NextInicial]_vars

\* the entry of either solver on the same call: both balance the instance
\* and build the initial solution before their loops
InitBalanco ==
    /\ \E x \in Instancias \cup InstanciasTabu :
          /\ custo = x.custo
          /\ oferta = x.oferta
          /\ demanda = x.demanda
    /\ max_iter = 0
    /\ tamanho_tabu = 0
    /\ SemLocais

NextBalanco == SimplexEntrada \/ TabuEntrada

SpecBalanco == InitBalanco /\ [][NextBalanco]_vars

---------------------------------------------------------------------------
\* Properties

\* the preconditions of both solvers: no negative cost, supply or demand
EntradasValidas ==
    /\ \A i \in 1..Rows(custo) : \A j \in 1..Cols(custo) : custo[i][j] >= 0
    /\ \A i \in 1..Len(oferta) : oferta[i] >= 0
    /\ \A j \in 1..Len(demanda) : demanda[j] >= 0

Balanceada == SeqSum(oferta) = SeqSum(demanda)

\* (rows, columns) of a matrix
Forma(M) == <<Rows(M), Cols(M)>>

\* row sums equal supply and column sums equal demand
Factivel(a, o, d) == RowSums(a) = o /\ ColSums(a) = d

\* C1: on a balanced instance with non-negative entries, every allocation
\* transporte_simplex holds (the initial one, the one after each pivot, the
\* returned one) has row sums equal to supply and column sums equal to demand.
C1_SimplexFactivel ==
    (EntradasValidas /\ Balanceada /\ pc \in {"iterando", "saindo", "retornado"})
        => Factivel(alocacao, oferta, demanda)

\* C2: on a balanced instance, the best solution busca_tabu_transporte returns
\* has row sums equal to supply and column sums equal to demand.
C2_TabuFactivel ==
    (EntradasValidas /\ Balanceada /\ pc = "retornado" /\ solucao_atual # <<>>)
        => Factivel(melhor_solucao, oferta, demanda)

\* C3: the costs of the iteration log returned by transporte_simplex never
\* increase from one record to the next.
C3_CustoNaoCrescente ==
    (EntradasValidas /\ pc = "retornado")
        => \A k \in 1..(Len(iter_log) - 1) : iter_log[k + 1].custo <= iter_log[k].custo

\* the non-negative allocations meeting supply and demand, and their least cost
AlocacoesFactiveis(o, d) ==
    {a \in Matrizes(Len(o), Len(d), 0..MaxQty) : Factivel(a, o, d)}
CustoMinimo(c, o, d) ==
    CHOOSE x \in {calcular_custo_total(c, a) : a \in AlocacoesFactiveis(o, d)} :
        \A a \in AlocacoesFactiveis(o, d) : x <= calcular_custo_total(c, a)

\* C4: when transporte_simplex leaves the loop because no cell has a negative
\* reduced cost, on a balanced instance, the returned cost is the least cost
\* of all non-negative allocations meeting supply and demand.
C4_OtimoEhMinimo ==
    ([custo |-> custo, oferta |-> oferta, demanda |-> demanda] \in InstanciasValidas
        /\ Balanceada /\ pc = "retornado" /\ saida = "otimo")
        => /\ Factivel(alocacao, oferta, demanda)
           /\ custo_total = CustoMinimo(custo, oferta, demanda)

\* C5: after either solver returns from an unbalanced m x n instance, the
\* final allocation and the allocation of every log record are m x n.
C5_FormaOriginal ==
    (~ Balanceada /\ pc = "retornado")
        => /\ iter_log # <<>> =>
                /\ Forma(alocacao) = Forma(custo)
                /\ \A k \in 1..Len(iter_log) : Forma(iter_log[k].alocacao) = Forma(custo)
           /\ solucao_atual # <<>> =>
                /\ Forma(melhor_solucao) = Forma(custo)
                /\ \A k \in 1..Len(registro_iteracoes) :
                       Forma(registro_iteracoes[k].alocacao) = Forma(custo)

\* the initial least-cost solution of the call, dummy row or column removed
SolucaoInicialOriginal ==
    RemoverDummy(
        solucao_inicial_menor_custo(Balancear(custo, oferta, demanda).custo,
                                    Balancear(custo, oferta, demanda).oferta,
                                    Balancear(custo, oferta, demanda).demanda),
        oferta, demanda)

\* C6: with max_iter = 0 either solver returns a log of exactly one record,
\* of iteration 0, and the initial least-cost solution as its allocation.
C6_MaxIterZero ==
    (max_iter = 0 /\ pc = "retornado")
        => /\ iter_log # <<>> =>
                /\ Len(iter_log) = 1
                /\ iter_log[1].iteracao = 0
                /\ alocacao = SolucaoInicialOriginal
           /\ solucao_atual # <<>> =>
                /\ Len(registro_iteracoes) = 1
                /\ registro_iteracoes[1].iteracao = 0
                /\ melhor_solucao = SolucaoInicialOriginal

\* C7: on "Cenário 1", run until the loop ends by itself (as max_iter = 100
\* does), transporte_simplex pads demand with a dummy column of 5 and returns
\* a 3 x 4 allocation with row sums (20, 30, 25) and column sums
\* (10, 25, 25, 10).
C7_Cenario1 ==
    ([custo |-> custo, oferta |-> oferta, demanda |-> demanda] = Cenario1
        /\ pc = "retornado" /\ saida = "otimo")
        => /\ vetor_demanda = <<10, 25, 25, 10, 5>>
           /\ Forma(alocacao) = <<3, 4>>
           /\ RowSums(alocacao) = <<20, 30, 25>>
           /\ ColSums(alocacao) = <<10, 25, 25, 10>>

\* C8: a call with a negative cost, supply or demand is rejected before any
\* solving step: nothing is balanced, no initial solution is built, nothing
\* is returned.
C8_EntradaRejeitada ==
    ~ EntradasValidas
        => /\ pc \notin {"iterando", "saindo", "retornado"}
           /\ matriz_custo = <<>>
           /\ alocacao = <<>>

RECURSIVE Alcance(_, _, _, _)
\* the rows and columns linked to the given ones by basic cells other than
\* inicio (moves along a row and along a column taking turns)
Alcance(a, inicio, linhas, colunas) ==
    LET cs == colunas \cup {j \in 1..Cols(a) :
                  \E i \in linhas : a[i][j] > 0 /\ <<i, j>> # inicio}
        ls == linhas \cup {i \in 1..Rows(a) :
                  \E j \in cs : a[i][j] > 0 /\ <<i, j>> # inicio}
    IN IF ls = linhas /\ cs = colunas THEN [linhas |-> ls, colunas |-> cs]
       ELSE Alcance(a, inicio, ls, cs)

\* a closed loop through inicio over basic cells that alternates row moves
\* and column moves exists iff the basic cells link inicio's row to its column
ExisteCicloAlternado(a, inicio) ==
    inicio[2] \in Alcance(a, inicio, {inicio[1]}, {}).colunas

\* C9: when no alternating closed loop through the entering cell exists,
\* encontrar_ciclo returns None and the driver's step stops without raising
\* and without touching the allocation.
C9_SemCicloRetornaNone ==
    (pc \in {"ciclo_achado", "excecao"} /\ ~ ExisteCicloAlternado(alocacao, entrada))
        => ciclo = None /\ pc # "excecao"

\* the fingerprints of the moves made so far, read off the log: record k
\* against record k-1 (the initial solution for the first)
MovimentosFeitos ==
    [k \in 1..Len(registro_iteracoes) |->
        Movimento(registro_iteracoes[k].alocacao,
                  IF k = 1
                  THEN solucao_inicial_menor_custo(matriz_custo, vetor_oferta, vetor_demanda)
                  ELSE registro_iteracoes[k - 1].alocacao)]

\* the last n elements of a sequence
Ultimos(s, n) == SubSeq(s, Len(s) - n + 1, Len(s))

\* C10: in busca_tabu_transporte, right after the chosen move's fingerprint
\* is pushed (line 127) the list ends with that fingerprint, whatever the
\* capacity, and holds the latest tamanho_tabu + 1 moves in the order they
\* were made; at the end of every iteration the list holds at most
\* tamanho_tabu entries, and they are the pushed list without its oldest
\* entry when that was one too many: the latest moves, oldest first.
C10_ListaTabu ==
    (pc \in {"gerando", "selecionando", "retornado"} /\ solucao_atual # <<>>)
        => /\ Len(lista_tabu) <= tamanho_tabu
           /\ lista_tabu =
                  Ultimos(MovimentosFeitos, Min2(Len(MovimentosFeitos), tamanho_tabu))
           /\ Len(registro_iteracoes) = 0 => lista_apos_append = <<>>
           /\ Len(registro_iteracoes) >= 1
                  => /\ lista_apos_append # <<>>
                     /\ lista_apos_append[Len(lista_apos_append)] = melhor_movimento
                     /\ melhor_movimento = MovimentosFeitos[Len(MovimentosFeitos)]
                     /\ lista_apos_append =
                            Ultimos(MovimentosFeitos,
                                    Min2(Len(MovimentosFeitos), tamanho_tabu + 1))
                     /\ lista_tabu = IF Len(lista_apos_append) > tamanho_tabu
                                     THEN Tail(lista_apos_append)
                                     ELSE lista_apos_append

\* C10 witness: a list of capacity 2 after three moves whose fingerprints
\* alternate: the push made it <<first, second, third>>, the first was
\* evicted and the list holds the second and the third, in that order
C10_Witness ==
    /\ pc = "gerando"
    /\ tamanho_tabu = 2
    /\ Len(registro_iteracoes) = 3
    /\ MovimentosFeitos[1] # MovimentosFeitos[2]
    /\ MovimentosFeitos[2] # MovimentosFeitos[3]
    /\ lista_apos_append = MovimentosFeitos
    /\ lista_tabu = <<MovimentosFeitos[2], MovimentosFeitos[3]>>

---------------------------------------------------------------------------
\* C11: after the balancing step of either solver the balanced supply and
\* demand have the same total; with supply > demand exactly one zero-cost
\* column is appended and the demand is extended with the surplus; with
\* demand > supply exactly one zero-cost row is appended and the supply is
\* extended with the surplus; with equal totals the cost matrix, the supply
\* and the demand are the inputs, unchanged.
C11_Balanceamento ==
    pc \in {"iterando", "gerando"} =>
        /\ SeqSum(vetor_oferta) = SeqSum(vetor_demanda)
        /\ SeqSum(oferta) > SeqSum(demanda) =>
               /\ Rows(matriz_custo) = Rows(custo)
               /\ Cols(matriz_custo) = Cols(custo) + 1
               /\ \A i \in 1..Rows(custo) :
                      /\ SubSeq(matriz_custo[i], 1, Cols(custo)) = custo[i]
                      /\ matriz_custo[i][Cols(custo) + 1] = 0
               /\ vetor_oferta = oferta
               /\ vetor_demanda = Append(demanda, SeqSum(oferta) - SeqSum(demanda))
        /\ SeqSum(demanda) > SeqSum(oferta) =>
               /\ Rows(matriz_custo) = Rows(custo) + 1
               /\ SubSeq(matriz_custo, 1, Rows(custo)) = custo
               /\ matriz_custo[Rows(custo) + 1] = [j \in 1..Cols(custo) |-> 0]
               /\ vetor_oferta = Append(oferta, SeqSum(demanda) - SeqSum(oferta))
               /\ vetor_demanda = demanda
        /\ SeqSum(oferta) = SeqSum(demanda) =>
               /\ matriz_custo = custo
               /\ vetor_oferta = oferta
               /\ vetor_demanda = demanda

\* the tabu search has balanced "Cenário 1": a dummy column with demand 5
C11_Witness ==
    /\ pc = "gerando"
    /\ oferta = Cenario1.oferta
    /\ demanda = Cenario1.demanda
    /\ Cols(matriz_custo) = 5
    /\ vetor_demanda = <<10, 25, 25, 10, 5>>

---------------------------------------------------------------------------
\* C12: when transporte_simplex returns, whatever the exit, the allocation
\* and the cost of the last log record are the returned allocation and the
\* returned cost, and no two consecutive log records hold the same
\* allocation (a record is added only for the allocation a pivot produced).
C12_LogAcompanhaPivos ==
    (EntradasValidas /\ pc = "retornado") =>
        /\ iter_log[Len(iter_log)].alocacao = alocacao
        /\ iter_log[Len(iter_log)].custo = custo_total
        /\ \A k \in 1..(Len(iter_log) - 1) :
               iter_log[k + 1].alocacao # iter_log[k].alocacao

---------------------------------------------------------------------------
\* a move between two cells runs along a row or along a column
NaLinha(p, q) == p[1] = q[1]
NaColuna(p, q) == p[2] = q[2]

\* C13: every cycle encontrar_ciclo returns to transporte_simplex starts and
\* ends at the entering cell, visits every other cell at most once, moves
\* only between cells sharing a row or a column, and alternates orientation:
\* no two consecutive moves are both along a row or both along a column.
C13_CicloAlternado ==
    (EntradasValidas /\ ciclo # None) =>
        /\ ciclo[1] = entrada
        /\ ciclo[Len(ciclo)] = entrada
        /\ \A k \in 2..(Len(ciclo) - 1) :
               /\ ciclo[k] # entrada
               /\ \A l \in 2..(Len(ciclo) - 1) : l # k => ciclo[l] # ciclo[k]
        /\ \A k \in 1..(Len(ciclo) - 1) :
               NaLinha(ciclo[k], ciclo[k + 1]) \/ NaColuna(ciclo[k], ciclo[k + 1])
        /\ \A k \in 1..(Len(ciclo) - 2) :
               /\ ~ (NaLinha(ciclo[k], ciclo[k + 1]) /\ NaLinha(ciclo[k + 1], ciclo[k + 2]))
               /\ ~ (NaColuna(ciclo[k], ciclo[k + 1]) /\ NaColuna(ciclo[k + 1], ciclo[k + 2]))

---------------------------------------------------------------------------
\* the allocations at the source's odd positions of a cycle that are positive
ValoresMenos(a, cic) ==
    {a[cic[k][1]][cic[k][2]] : k \in {x \in 1..Len(cic) : x % 2 = 0 /\ a[cic[x][1]][cic[x][2]] > 0}}

\* a step of transporte_simplex that pivots
PassoPivo == pc = "iterando" /\ iteracao' = iteracao + 1

\* how often a cell stands at a source-even (+) and at a source-odd (-)
\* position of a cycle
VezesMais(cic, cel) == Cardinality({k \in 1..Len(cic) : cic[k] = cel /\ k % 2 = 1})
VezesMenos(cic, cel) == Cardinality({k \in 1..Len(cic) : cic[k] = cel /\ k % 2 = 0})

NaoNegativa(a) == \A i \in 1..Rows(a) : \A j \in 1..Cols(a) : a[i][j] >= 0

\* C14: in every pivot of transporte_simplex theta is well defined (some
\* cell at an odd position of the cycle has a positive allocation, so
\* ajustar_alocacao never fails) and strictly positive, every position of
\* the cycle changes its cell by -theta when odd and by +theta when even,
\* and the resulting allocation has no negative cell.
C14_PivoBemDefinido ==
    /\ [](EntradasValidas => pc # "excecao")
    /\ [][(EntradasValidas /\ PassoPivo) =>
            /\ ValoresMenos(alocacao, ciclo') # {}
            /\ \E theta \in ValoresMenos(alocacao, ciclo') :
                  /\ theta > 0
                  /\ \A x \in ValoresMenos(alocacao, ciclo') : theta <= x
                  /\ \A i \in 1..Rows(alocacao) : \A j \in 1..Cols(alocacao) :
                        alocacao'[i][j] = alocacao[i][j]
                            + theta * VezesMais(ciclo', <<i, j>>)
                            - theta * VezesMenos(ciclo', <<i, j>>)
            /\ NaoNegativa(alocacao')]_vars

\* the first pivot of "Cenário 1" has moved 15 units into the dummy column
C14_Witness ==
    /\ custo = Cenario1.custo
    /\ pc = "iterando"
    /\ iteracao = 1
    /\ ciclo = <<<<1, 3>>, <<1, 2>>, <<1, 5>>, <<1, 3>>>>
    /\ alocacao[1] = <<0, 0, 0, 0, 20>>

---------------------------------------------------------------------------
\* the cells with remaining supply and remaining demand, and the position
\* of a cell in row-major order
Disponiveis ==
    {cel \in (1..Rows(custo)) \X (1..Cols(custo)) :
        oferta_restante[cel[1]] > 0 /\ demanda_restante[cel[2]] > 0}
Ordem(cel) == (cel[1] - 1) * Cols(custo) + cel[2]

\* C15: on a balanced instance with non-negative entries,
\* solucao_inicial_menor_custo makes at most m+n-1 allocations and returns
\* an allocation whose row sums are the supply and whose column sums are the
\* demand; each allocation goes to the cheapest cell with remaining supply
\* and demand, the first one in row-major order among equally cheap cells,
\* and is the smaller of the two remainders.
C15_SolucaoInicial ==
    /\ []((EntradasValidas /\ Balanceada) =>
            /\ passos <= Rows(custo) + Cols(custo) - 1
            /\ pc = "inicial_retornado" =>
                  /\ Factivel(alocacao, oferta, demanda)
                  /\ alocacao = solucao_inicial_menor_custo(custo, oferta, demanda))
    /\ [][(EntradasValidas /\ Balanceada /\ passos' = passos + 1) =>
            \E cel \in Disponiveis :
                /\ \A x \in Disponiveis :
                      \/ custo[cel[1]][cel[2]] < custo[x[1]][x[2]]
                      \/ /\ custo[cel[1]][cel[2]] = custo[x[1]][x[2]]
                         /\ Ordem(cel) <= Ordem(x)
                /\ alocacao' = [alocacao EXCEPT ![cel[1]][cel[2]] =
                                   Min2(oferta_restante[cel[1]], demanda_restante[cel[2]])]
                /\ oferta_restante' = [oferta_restante EXCEPT ![cel[1]] =
                                   @ - Min2(oferta_restante[cel[1]], demanda_restante[cel[2]])]
                /\ demanda_restante' = [demanda_restante EXCEPT ![cel[2]] =
                                   @ - Min2(oferta_restante[cel[1]], demanda_restante[cel[2]])]]_vars

\* a uniform 2x2 instance, every choice a tie, has taken m+n-1 = 3 allocations
C15_Witness ==
    /\ pc = "inicial_retornado"
    /\ custo = <<<<1, 1>>, <<1, 1>>>>
    /\ oferta = <<1, 2>>
    /\ demanda = <<2, 1>>
    /\ passos = Rows(custo) + Cols(custo) - 1
    /\ alocacao = <<<<1, 0>>, <<1, 1>>>>

---------------------------------------------------------------------------
\* C16: for the potentials calcular_potenciais computes on any allocation
\* transporte_simplex holds, every basic cell (allocation > 0) whose u[i]
\* and v[j] are both known satisfies cost[i][j] = u[i] + v[j].
C16_PotenciaisExatos ==
    (EntradasValidas /\ pc \in {"iterando", "saindo"}) =>
        \A i \in 1..Rows(alocacao) : \A j \in 1..Cols(alocacao) :
            (/\ alocacao[i][j] > 0
             /\ calcular_potenciais(matriz_custo, alocacao).u[i] # None
             /\ calcular_potenciais(matriz_custo, alocacao).v[j] # None)
            => matriz_custo[i][j] =
                   calcular_potenciais(matriz_custo, alocacao).u[i][1]
                   + calcular_potenciais(matriz_custo, alocacao).v[j][1]

---------------------------------------------------------------------------
\* the allocation the last iteration of transporte_simplex worked on: the
\* one of the record it appended
AlocacaoExaminada == iter_log[Len(iter_log)].alocacao

\* the reduced cost of a cell whose potentials are both known
CustoReduzido(c, a, cel) ==
    c[cel[1]][cel[2]] - (calcular_potenciais(c, a).u[cel[1]][1]
                         + calcular_potenciais(c, a).v[cel[2]][1])

\* the zero-allocation cells with known potentials and negative reduced cost
Candidatas(c, a) ==
    {cel \in (1..Rows(c)) \X (1..Cols(c)) :
        /\ a[cel[1]][cel[2]] = 0
        /\ calcular_potenciais(c, a).u[cel[1]] # None
        /\ calcular_potenciais(c, a).v[cel[2]] # None
        /\ CustoReduzido(c, a, cel) < 0}

OrdemEm(c, cel) == (cel[1] - 1) * Cols(c) + cel[2]

\* C17: the cell encontrar_variavel_entrada returns is a zero-allocation
\* cell with known potentials whose reduced cost is negative and the least
\* of all, the first such cell in row-major order; it returns no cell
\* exactly when no zero-allocation cell has a negative reduced cost.
C17_VariavelEntrada ==
    (EntradasValidas /\ pc \in {"iterando", "saindo"} /\ Len(iter_log) >= 2) =>
        /\ entrada = None <=> Candidatas(matriz_custo, AlocacaoExaminada) = {}
        /\ entrada # None =>
              /\ entrada \in Candidatas(matriz_custo, AlocacaoExaminada)
              /\ \A x \in Candidatas(matriz_custo, AlocacaoExaminada) :
                    \/ CustoReduzido(matriz_custo, AlocacaoExaminada, entrada)
                           < CustoReduzido(matriz_custo, AlocacaoExaminada, x)
                    \/ /\ CustoReduzido(matriz_custo, AlocacaoExaminada, entrada)
                              = CustoReduzido(matriz_custo, AlocacaoExaminada, x)
                       /\ OrdemEm(matriz_custo, entrada) <= OrdemEm(matriz_custo, x)

\* a cell was chosen where another cell has the same negative reduced cost
C17_Witness ==
    /\ EntradasValidas
    /\ pc = "iterando"
    /\ Len(iter_log) >= 2
    /\ entrada # None
    /\ \E x \in Candidatas(matriz_custo, AlocacaoExaminada) :
          /\ x # entrada
          /\ CustoReduzido(matriz_custo, AlocacaoExaminada, x)
                 = CustoReduzido(matriz_custo, AlocacaoExaminada, entrada)

---------------------------------------------------------------------------
\* the candidates of the batch whose fingerprint is not in the tabu list
Admissiveis ==
    {k \in 1..Len(vizinhos) :
        \A t \in 1..Len(lista_tabu) : lista_tabu[t] # Movimento(vizinhos[k], solucao_atual)}

\* C18: in each iteration of busca_tabu_transporte the next current solution
\* is the lowest-cost candidate of the batch among those whose fingerprint is
\* not in the tabu list, the first generated on cost ties; when every
\* candidate's fingerprint is in the tabu list it is the first generated
\* candidate.
C18_SelecaoTabu ==
    [][pc = "selecionando" =>
          IF Admissiveis = {}
          THEN solucao_atual' = vizinhos[1]
          ELSE \E k \in Admissiveis :
                  /\ \A l \in Admissiveis :
                        \/ calcular_custo_total(matriz_custo, vizinhos[k])
                               < calcular_custo_total(matriz_custo, vizinhos[l])
                        \/ /\ calcular_custo_total(matriz_custo, vizinhos[k])
                                  = calcular_custo_total(matriz_custo, vizinhos[l])
                           /\ k <= l
                  /\ solucao_atual' = vizinhos[k]]_vars

\* with a tabu list of capacity 1 holding fingerprint 1, a second move with
\* fingerprint 1 was made: every candidate was tabu and the first was taken
C18_Witness ==
    /\ pc = "gerando"
    /\ tamanho_tabu = 1
    /\ Len(registro_iteracoes) = 2
    /\ MovimentosFeitos[1] = 1
    /\ MovimentosFeitos[2] = 1
    /\ lista_tabu = <<1>>

---------------------------------------------------------------------------
\* every cell of the cost matrix holds the same value
CustoUniforme ==
    \A i \in 1..Rows(custo) : \A j \in 1..Cols(custo) : custo[i][j] = custo[1][1]

\* C19: on a balanced instance with a uniform cost matrix transporte_simplex
\* finds no entering cell on its first iteration and never pivots: it
\* returns the initial least-cost allocation, and the returned cost is the
\* uniform cost times the total supply (300 for "Cenário 2").
C19_CustoUniforme ==
    (EntradasValidas /\ Balanceada /\ CustoUniforme) =>
        /\ entrada = None
        /\ ciclo = None
        /\ iteracao = 0
        /\ pc \in {"iterando", "saindo", "retornado"} =>
              alocacao = solucao_inicial_menor_custo(custo, oferta, demanda)
        /\ pc = "saindo" => saida = "otimo" /\ Len(iter_log) = 2
        /\ pc = "retornado" =>
              /\ custo_total = custo[1][1] * SeqSum(oferta)
              /\ max_iter > 0 => saida = "otimo" /\ Len(iter_log) = 2
              /\ custo = Cenario2.custo => custo_total = 300

\* "Cenário 2" has returned after its first iteration
C19_Witness ==
    /\ custo = Cenario2.custo
    /\ oferta = Cenario2.oferta
    /\ demanda = Cenario2.demanda
    /\ max_iter > 0
    /\ pc = "retornado"
    /\ saida = "otimo"
    /\ alocacao = <<<<30, 0, 0>>, <<0, 20, 0>>, <<0, 0, 10>>>>
    /\ custo_total = 300

---------------------------------------------------------------------------
\* the initial least-cost solution of the call and its cost
SolucaoInicialTabu ==
    solucao_inicial_menor_custo(matriz_custo, vetor_oferta, vetor_demanda)
CustoInicialTabu == calcular_custo_total(matriz_custo, SolucaoInicialTabu)

\* the costs the search has seen: the initial one and those of the log
CustosVistos ==
    {CustoInicialTabu} \cup {registro_iteracoes[k].custo : k \in 1..Len(registro_iteracoes)}
MenorCustoVisto == CHOOSE x \in CustosVistos : \A y \in CustosVistos : x <= y

\* the first solution that reached the least cost seen: the initial one, or
\* the allocation of the first log record with that cost
PrimeiraMelhor ==
    IF CustoInicialTabu = MenorCustoVisto THEN SolucaoInicialTabu
    ELSE registro_iteracoes[
             CHOOSE k \in 1..Len(registro_iteracoes) :
                 /\ registro_iteracoes[k].custo = MenorCustoVisto
                 /\ \A l \in 1..(k - 1) : registro_iteracoes[l].custo # MenorCustoVisto
         ].alocacao

\* C20: in busca_tabu_transporte the best cost never increases and the best
\* solution changes only on a strict improvement; on return the returned
\* cost is the least of the initial solution's cost and the costs of the log
\* records, the returned allocation is the first solution that reached it,
\* without the dummy row or column; no cell of a current or best allocation
\* is negative.
C20_MelhorCusto ==
    /\ []((EntradasValidas /\ solucao_atual # <<>>) =>
            /\ NaoNegativa(solucao_atual)
            /\ NaoNegativa(melhor_solucao)
            /\ pc = "retornado" =>
                  /\ melhor_custo = MenorCustoVisto
                  /\ melhor_solucao = RemoverDummy(PrimeiraMelhor, oferta, demanda))
    /\ [][(EntradasValidas /\ solucao_atual # <<>>) =>
            /\ melhor_custo' <= melhor_custo
            /\ (pc = "selecionando" /\ melhor_solucao' # melhor_solucao) =>
                  /\ melhor_custo' < melhor_custo
                  /\ melhor_solucao' = solucao_atual'
            /\ (pc = "selecionando" /\ melhor_custo' < melhor_custo) =>
                  melhor_solucao' = solucao_atual']_vars

\* a run that improved on the initial cost at its first move, got worse at
\* the second, and returned the first
C20_Witness ==
    /\ pc = "retornado"
    /\ Len(registro_iteracoes) = 2
    /\ registro_iteracoes[1].custo < CustoInicialTabu
    /\ registro_iteracoes[2].custo > registro_iteracoes[1].custo
    /\ melhor_custo = registro_iteracoes[1].custo
    /\ melhor_solucao = RemoverDummy(registro_iteracoes[1].alocacao, oferta, demanda)

===========================================================================
